---------------------------- MODULE Spec2Model ----------------------------
(***************************************************************************)
(* Habit Garden: the streak and scoring engine (app/services/scoring.py)   *)
(* and the habit store it is fed from (app/models/habits.py, db.py,        *)
(* app/routes/api.py).                                                     *)
(*                                                                         *)
(* Calendar dates are the day numbers 1..NumDates.  The code holds dates   *)
(* as ISO 'YYYY-MM-DD' strings and orders them with sorted(); for that     *)
(* fixed-width format the string order is the calendar order, which is the *)
(* order of the day numbers.                                               *)
(***************************************************************************)
EXTENDS Integers, Sequences, FiniteSets, TLC

\* ------------------------------------------------------------------ bounds

NumDates == 3
MaxComps == 3
MaxCount == 3

Dates == 1..NumDates
HabitIds == {1, 2}

\* A completion row {'habit_id': h, 'date': d}.
Rows == [habit_id : HabitIds, date : Dates]

\* ------------------------------------------------------------------- state

\* clock      the system date, which _date.today() reads
\* log        the completion rows of the log
\* dueByDate  the due schedule: a dict from date to the set of habit ids due
\* args       the two scalars of the last summarize_stats call
\* stats      what the last summarize_stats call returned
\* tables     the tables of the SQLite database
\* completions, habits   the rows of these two tables
\* result     the last call of the store and its outcome
VARIABLES clock, log, dueByDate, args, stats, tables, completions, habits, result
vars == <<clock, log, dueByDate, args, stats, tables, completions, habits, result>>
scoreVars == <<log, dueByDate, args, stats>>
storeVars == <<tables, completions, habits, result>>

\* ------------------------------------------------------------- python bits

\* dict.get(key, default) on a dict held as a function.
Get(dict, key, default) == IF key \in DOMAIN dict THEN dict[key] ELSE default

\* The empty dict.
EmptyDict == [k \in {} |-> {}]

\* max(a, b)
Max(a, b) == IF a >= b THEN a ELSE b

\* sorted(S, reverse=True): the dates of S, most recent first.
RECURSIVE SortedDesc(_)
SortedDesc(S) ==
    IF S = {} THEN <<>>
    ELSE LET m == CHOOSE x \in S : \A y \in S : y <= x
         IN  <<m>> \o SortedDesc(S \ {m})

\* sorted(S): the dates of S, oldest first.
RECURSIVE SortedAsc(_)
SortedAsc(S) ==
    IF S = {} THEN <<>>
    ELSE LET m == CHOOSE x \in S : \A y \in S : x <= y
         IN  <<m>> \o SortedAsc(S \ {m})

\* ------------------------------------------------------------- scoring.py

\* by_date[row["date"]].add(int(row["habit_id"])) on a defaultdict(set).
AddRow(by_date, row) ==
    [d \in DOMAIN by_date \cup {row.date} |->
        IF d = row.date THEN Get(by_date, d, {}) \cup {row.habit_id}
        ELSE by_date[d]]

\* _index_comps_by_date: the loop over the rows, in list order.
RECURSIVE IndexFrom(_, _, _)
IndexFrom(all_completions, i, by_date) ==
    IF i > Len(all_completions) THEN by_date
    ELSE IndexFrom(all_completions, i + 1, AddRow(by_date, all_completions[i]))

_index_comps_by_date(all_completions) == IndexFrom(all_completions, 1, EmptyDict)

\* _date.today().isoformat(): the date the system clock shows when it is read.
_today_str(system_date) == system_date

\* Variant: only the dates up to today are walked.
CandidateDatesUpToToday(due_by_date, today) ==
    SortedDesc({d \in DOMAIN due_by_date \cup {today} : d <= today})

\* The candidate dates of current_streak: the keys and today, most recent first.
CandidateDates(due_by_date, today) == SortedDesc(DOMAIN due_by_date \cup {today})

\* Variant: a due day that is not fully completed is passed over, the walk goes on.
RECURSIVE StreakWalkNoBreak(_, _, _, _, _)
StreakWalkNoBreak(dates, i, streak, due_by_date, comps_by_date) ==
    IF i > Len(dates) THEN streak
    ELSE LET d == dates[i]
             due_set == Get(due_by_date, d, {})
             completed == Get(comps_by_date, d, {})
         IN  IF due_set # {} /\ due_set \subseteq completed
             THEN StreakWalkNoBreak(dates, i + 1, streak + 1, due_by_date, comps_by_date)
             ELSE StreakWalkNoBreak(dates, i + 1, streak, due_by_date, comps_by_date)

\* The for loop of current_streak from position i on, with its continue and break.
RECURSIVE StreakWalk(_, _, _, _, _)
StreakWalk(dates, i, streak, due_by_date, comps_by_date) ==
    IF i > Len(dates) THEN streak
    ELSE LET d == dates[i]
             due_set == Get(due_by_date, d, {})
             completed == Get(comps_by_date, d, {})
         IN  IF due_set = {}
             THEN StreakWalk(dates, i + 1, streak, due_by_date, comps_by_date)
             ELSE IF due_set \subseteq completed
             THEN StreakWalk(dates, i + 1, streak + 1, due_by_date, comps_by_date)
             ELSE streak

\* Variant: no early return and no skip of a day with nothing due, so that an
\* empty due-set counts as completed.
RECURSIVE StreakWalkNoSkip(_, _, _, _, _)
StreakWalkNoSkip(dates, i, streak, due_by_date, comps_by_date) ==
    IF i > Len(dates) THEN streak
    ELSE IF Get(due_by_date, dates[i], {}) \subseteq Get(comps_by_date, dates[i], {})
         THEN StreakWalkNoSkip(dates, i + 1, streak + 1, due_by_date, comps_by_date)
         ELSE streak

current_streak_unguarded(all_completions, due_by_date, system_date) ==
    StreakWalkNoSkip(CandidateDates(due_by_date, _today_str(system_date)), 1, 0, due_by_date, _index_comps_by_date(all_completions))

\* system_date is the clock at the time of the call; the code reads it through
\* _today_str() and takes no such argument.
current_streak(all_completions, due_by_date, system_date) ==
    IF DOMAIN due_by_date = {} THEN 0
    ELSE StreakWalk(CandidateDates(due_by_date, _today_str(system_date)), 1, 0, due_by_date,
                    _index_comps_by_date(all_completions))

\* Variant: a due day that is not fully completed does not reset the run.
RECURSIVE LongestWalkNoReset(_, _, _, _, _, _)
LongestWalkNoReset(dates, i, best, cur, due_by_date, comps_by_date) ==
    IF i > Len(dates) THEN best
    ELSE IF due_by_date[dates[i]] # {}
              /\ due_by_date[dates[i]] \subseteq Get(comps_by_date, dates[i], {})
         THEN LongestWalkNoReset(dates, i + 1, Max(best, cur + 1), cur + 1,
                                 due_by_date, comps_by_date)
         ELSE LongestWalkNoReset(dates, i + 1, best, cur, due_by_date, comps_by_date)

\* Variant: a day with nothing due resets the run.
RECURSIVE LongestWalkEmptyResets(_, _, _, _, _, _)
LongestWalkEmptyResets(dates, i, best, cur, due_by_date, comps_by_date) ==
    IF i > Len(dates) THEN best
    ELSE IF due_by_date[dates[i]] # {}
              /\ due_by_date[dates[i]] \subseteq Get(comps_by_date, dates[i], {})
         THEN LongestWalkEmptyResets(dates, i + 1, Max(best, cur + 1), cur + 1,
                                     due_by_date, comps_by_date)
         ELSE LongestWalkEmptyResets(dates, i + 1, best, 0, due_by_date, comps_by_date)

\* Variant: best is taken before the day is counted.
RECURSIVE LongestWalkLateBest(_, _, _, _, _, _)
LongestWalkLateBest(dates, i, best, cur, due_by_date, comps_by_date) ==
    IF i > Len(dates) THEN best
    ELSE IF due_by_date[dates[i]] = {}
         THEN LongestWalkLateBest(dates, i + 1, best, cur, due_by_date, comps_by_date)
         ELSE IF due_by_date[dates[i]] \subseteq Get(comps_by_date, dates[i], {})
         THEN LongestWalkLateBest(dates, i + 1, Max(best, cur), cur + 1,
                                  due_by_date, comps_by_date)
         ELSE LongestWalkLateBest(dates, i + 1, best, 0, due_by_date, comps_by_date)

\* The for loop of longest_streak from position i on.
RECURSIVE LongestWalk(_, _, _, _, _, _)
LongestWalk(dates, i, best, cur, due_by_date, comps_by_date) ==
    IF i > Len(dates) THEN best
    ELSE LET d == dates[i]
             due_set == due_by_date[d]
             completed == Get(comps_by_date, d, {})
         IN  IF due_set = {}
             THEN LongestWalk(dates, i + 1, best, cur, due_by_date, comps_by_date)
             ELSE IF due_set \subseteq completed
             THEN LongestWalk(dates, i + 1, Max(best, cur + 1), cur + 1,
                              due_by_date, comps_by_date)
             ELSE LongestWalk(dates, i + 1, best, 0, due_by_date, comps_by_date)

longest_streak(all_completions, due_by_date) ==
    IF DOMAIN due_by_date = {} THEN 0
    ELSE LongestWalk(SortedAsc(DOMAIN due_by_date), 1, 0, 0, due_by_date,
                     _index_comps_by_date(all_completions))

\* Variant: the bonus is not floored at 0.
currency_nomax(total_completions, cur_streak) ==
    total_completions + cur_streak - 1

currency(total_completions, cur_streak) ==
    total_completions + Max(0, cur_streak - 1)

summarize_stats(total_active_habits, total_completions, all_completions, due_by_date, system_date) ==
    LET cur == current_streak(all_completions, due_by_date, system_date)
        long == longest_streak(all_completions, due_by_date)
        coins == currency(total_completions, cur)
    IN  [called |-> TRUE,
         total_habits |-> total_active_habits,
         total_completions |-> total_completions,
         current_streak |-> cur,
         longest_streak |-> long,
         currency |-> coins]

\* ------------------------------------------------------------ no values

\* date_str=None, day=None: no date given.
NoDate == 0

\* parse_iso_date's "invalid", and a ?date= text that is no ISO date.
Malformed == -1

NoReturn == [nothing |-> TRUE]
NoCall == [op |-> "none", habit_id |-> 0, date |-> NoDate, raised |-> "", returned |-> NoReturn]

\* ---------------------------------------------------------------- callers

NoStats == [called |-> FALSE]
NoArgs == [total_active_habits |-> 0, total_completions |-> 0]

\* The rows as fetch_all_completions lists them: ORDER BY date ASC.
RECURSIVE fetch_all_completions(_)
fetch_all_completions(rows) ==
    IF rows = {} THEN <<>>
    ELSE LET r == CHOOSE x \in rows : \A y \in rows :
                      x.date < y.date \/ (x.date = y.date /\ x.habit_id <= y.habit_id)
         IN  <<r>> \o fetch_all_completions(rows \ {r})

\* The same rows listed in the opposite order.
RECURSIVE Reversed(_)
Reversed(s) == IF s = <<>> THEN <<>> ELSE Reversed(Tail(s)) \o <<Head(s)>>

DueSchedules == UNION {[K -> SUBSET HabitIds] : K \in SUBSET Dates}
Logs == {L \in SUBSET Rows : Cardinality(L) <= MaxComps}
Counts == 0..MaxCount
\* counts()["total_habits"]: the number of active habits, of the habits there are.
HabitCounts == 0..Cardinality(HabitIds)

Init ==
    /\ clock \in Dates
    /\ log \in Logs
    /\ dueByDate \in DueSchedules
    /\ args = NoArgs
    /\ stats = NoStats
    /\ tables = {}
    /\ completions = {}
    /\ habits = {}
    /\ result = NoCall

\* The first call, with the counts the api passes: counts()'s total_completions
\* is the number of completion rows.
Summarize ==
    /\ stats = NoStats
    /\ args' = [total_active_habits |-> Cardinality(HabitIds),
                total_completions |-> Cardinality(log)]
    /\ stats' = summarize_stats(args'.total_active_habits, args'.total_completions,
                                fetch_all_completions(log), dueByDate, clock)
    /\ UNCHANGED <<clock, log, dueByDate>>
    /\ UNCHANGED storeVars

\* A later call with the same arguments, the rows listed in the opposite order,
\* made on the same day or on a later one.
Resummarize ==
    /\ stats # NoStats
    /\ \E later \in clock..NumDates :
          /\ clock' = later
          /\ stats' = summarize_stats(args.total_active_habits, args.total_completions,
                                      Reversed(fetch_all_completions(log)), dueByDate, later)
    /\ UNCHANGED <<log, dueByDate, args>>
    /\ UNCHANGED storeVars

\* The caller adds a date with nothing due to the schedule and calls again.
InsertEmptyDay ==
    /\ stats # NoStats
    /\ \E d \in Dates \ DOMAIN dueByDate :
          dueByDate' = [e \in DOMAIN dueByDate \cup {d} |->
                           IF e = d THEN {} ELSE dueByDate[e]]
    /\ UNCHANGED <<clock, log, args>>
    /\ UNCHANGED storeVars
    /\ stats' = summarize_stats(args.total_active_habits, args.total_completions,
                                fetch_all_completions(log), dueByDate', clock)

\* The caller drops a date with nothing due from the schedule and calls again.
RemoveEmptyDay ==
    /\ stats # NoStats
    /\ \E d \in DOMAIN dueByDate :
          /\ dueByDate[d] = {}
          /\ dueByDate' = [e \in DOMAIN dueByDate \ {d} |-> dueByDate[e]]
    /\ UNCHANGED <<clock, log, args>>
    /\ UNCHANGED storeVars
    /\ stats' = summarize_stats(args.total_active_habits, args.total_completions,
                                fetch_all_completions(log), dueByDate', clock)

Next == Summarize \/ Resummarize \/ InsertEmptyDay \/ RemoveEmptyDay

Spec == Init /\ [][Next]_vars

\* summarize_stats called with counts of the caller's choosing, on the last day
\* of the date range.
InitSummary ==
    /\ clock = NumDates
    /\ log \in Logs
    /\ dueByDate \in DueSchedules
    /\ args = NoArgs
    /\ stats = NoStats
    /\ tables = {}
    /\ completions = {}
    /\ habits = {}
    /\ result = NoCall

SummarizeCounts ==
    /\ stats = NoStats
    /\ LET allc == fetch_all_completions(log)
       IN  \E tah \in HabitCounts, tc \in Counts :
              /\ args' = [total_active_habits |-> tah, total_completions |-> tc]
              /\ stats' = summarize_stats(tah, tc, allc, dueByDate, clock)
    /\ UNCHANGED <<clock, log, dueByDate>>
    /\ UNCHANGED storeVars

NextSummary == SummarizeCounts

SpecSummary == InitSummary /\ [][NextSummary]_vars

\* ---------------------------------------------------------------- db.py

\* The statements of create_tables' script, in order, and whether SQLite parses
\* each: 'CREATE TABLE IF NOT EXIST' (habits, completions) is a syntax error,
\* and so is the column list of purchases, which lacks a comma.
SchemaScript ==
    << [table |-> "habits", parses |-> FALSE],
       [table |-> "completions", parses |-> FALSE],
       [table |-> "items", parses |-> TRUE],
       [table |-> "purchases", parses |-> FALSE] >>

\* The columns the script declares for habits.
HabitsColumns == {"id", "name", "created_at", "archived_at", "difficulty"}

\* executescript: the statements run in order up to the first that fails.
RECURSIVE ExecuteScript(_, _, _)
ExecuteScript(script, i, created) ==
    IF i > Len(script) THEN [tables |-> created, raised |-> ""]
    ELSE IF ~script[i].parses THEN [tables |-> created, raised |-> "OperationalError"]
    ELSE ExecuteScript(script, i + 1, created \cup {script[i].table})

\* create_tables, run by create_app.
create_tables ==
    LET done == ExecuteScript(SchemaScript, 1, tables)
    IN  /\ tables' = done.tables
        /\ result' = [op |-> "create_tables", habit_id |-> 0, date |-> NoDate,
                      raised |-> done.raised, returned |-> NoReturn]
        /\ UNCHANGED <<completions, habits>>

\* ------------------------------------------------------------- habits.py

\* The id AUTOINCREMENT gives the next row.
NextId(rows) == 1 + Cardinality(rows)

\* complete_today: the INSERT under UNIQUE(habit_id, date); an IntegrityError
\* becomes ValueError("duplicate_or_invalid"), any other error is not caught.
complete_today(habit_id, date_str) ==
    LET d == IF date_str = NoDate THEN _today_str(clock) ELSE date_str
    IN  IF "completions" \notin tables
        THEN [rows |-> completions, raised |-> "OperationalError", returned |-> NoReturn]
        ELSE IF \E r \in completions : r.habit_id = habit_id /\ r.date = d
        THEN [rows |-> completions, raised |-> "ValueError(duplicate_or_invalid)",
              returned |-> NoReturn]
        ELSE [rows |-> completions \cup
                          {[id |-> NextId(completions), habit_id |-> habit_id, date |-> d]},
              raised |-> "",
              returned |-> [habit_id |-> habit_id, date |-> d]]

\* uncomplete_today: the DELETE, and whether it removed a row.
uncomplete_today(habit_id, date_str) ==
    LET d == IF date_str = NoDate THEN _today_str(clock) ELSE date_str
        hit == {r \in completions : r.habit_id = habit_id /\ r.date = d}
    IN  IF "completions" \notin tables
        THEN [rows |-> completions, raised |-> "OperationalError", returned |-> NoReturn]
        ELSE [rows |-> completions \ hit, raised |-> "",
              returned |-> [removed |-> Cardinality(hit) > 0]]

\* date.weekday(), Monday = 0; day 1 is taken to be a Monday.
weekday(d) == (d - 1) % 7

\* The test of one row in habits_due_on's loop; a mask is a sequence of "0"/"1".
RowIsDue(row, wd) ==
    \/ row.frequency = "daily"
    \/ /\ row.frequency = "custom"
       /\ LET mask == IF row.weekly_mask = <<>> THEN <<"0", "0", "0", "0", "0", "0", "0">>
                      ELSE row.weekly_mask
          IN  Len(mask) = 7 /\ mask[wd + 1] = "1"

\* habits_due_on: the SELECT of id, frequency and weekly_mask, then the loop.
habits_due_on(day) ==
    LET d == IF day = NoDate THEN clock ELSE day
        rows == {h \in habits : h.archived_at = NoDate}
    IN  IF "habits" \notin tables \/ ~({"id", "frequency", "weekly_mask", "archived_at"} \subseteq HabitsColumns)
        THEN [raised |-> "OperationalError", returned |-> NoReturn]
        ELSE [raised |-> "", returned |-> [due |-> {h.id : h \in {x \in rows : RowIsDue(x, weekday(d))}}]]

\* --------------------------------------------------------------- api.py

\* parse_iso_date: None when missing, "invalid" when it is no ISO date.
parse_iso_date(s) == IF s = NoDate THEN NoDate ELSE IF s \in Dates THEN s ELSE Malformed

\* complete_day: POST /api/habits/<id>/complete?date=
complete_day(habit_id, date_param) ==
    LET d == parse_iso_date(date_param)
        res == complete_today(habit_id, d)
    IN  IF d = Malformed
        THEN [rows |-> completions, raised |-> "", returned |-> [status |-> 400, error |-> "invalid_date"]]
        ELSE IF res.raised = "" THEN [res EXCEPT !.returned = [status |-> 201, error |-> ""]]
        ELSE IF res.raised = "ValueError(duplicate_or_invalid)"
        THEN [res EXCEPT !.raised = "", !.returned = [status |-> 409, error |-> "duplicate"]]
        ELSE res

\* uncomplete_day: DELETE /api/habits/<id>/complete?date=
uncomplete_day(habit_id, date_param) ==
    LET d == parse_iso_date(date_param)
        res == uncomplete_today(habit_id, d)
    IN  IF d = Malformed
        THEN [rows |-> completions, raised |-> "", returned |-> [status |-> 400, error |-> "invalid_date"]]
        ELSE IF res.raised # "" THEN res
        ELSE IF res.returned.removed THEN [res EXCEPT !.returned = [status |-> 200, error |-> ""]]
        ELSE [res EXCEPT !.returned = [status |-> 404, error |-> "not_found"]]

\* ---------------------------------------------------------- store callers

DateArgs == Dates \cup {NoDate}
DateParams == Dates \cup {NoDate, Malformed}

InitStore ==
    /\ clock \in Dates
    /\ log = {}
    /\ dueByDate = EmptyDict
    /\ args = NoArgs
    /\ stats = NoStats
    /\ tables = {}
    /\ completions = {}
    /\ habits = {}
    /\ result = NoCall

CreateTables ==
    /\ create_tables
    /\ UNCHANGED <<clock, scoreVars>>

CompleteToday ==
    /\ \E h \in HabitIds, ds \in DateArgs :
         LET res == complete_today(h, ds)
         IN  /\ completions' = res.rows
             /\ result' = [op |-> "complete_today", habit_id |-> h, date |-> ds,
                           raised |-> res.raised, returned |-> res.returned]
    /\ UNCHANGED <<clock, scoreVars, tables, habits>>

UncompleteToday ==
    /\ \E h \in HabitIds, ds \in DateArgs :
         LET res == uncomplete_today(h, ds)
         IN  /\ completions' = res.rows
             /\ result' = [op |-> "uncomplete_today", habit_id |-> h, date |-> ds,
                           raised |-> res.raised, returned |-> res.returned]
    /\ UNCHANGED <<clock, scoreVars, tables, habits>>

CompleteDay ==
    /\ \E h \in HabitIds, p \in DateParams :
         LET res == complete_day(h, p)
         IN  /\ completions' = res.rows
             /\ result' = [op |-> "complete_day", habit_id |-> h, date |-> p,
                           raised |-> res.raised, returned |-> res.returned]
    /\ UNCHANGED <<clock, scoreVars, tables, habits>>

UncompleteDay ==
    /\ \E h \in HabitIds, p \in DateParams :
         LET res == uncomplete_day(h, p)
         IN  /\ completions' = res.rows
             /\ result' = [op |-> "uncomplete_day", habit_id |-> h, date |-> p,
                           raised |-> res.raised, returned |-> res.returned]
    /\ UNCHANGED <<clock, scoreVars, tables, habits>>

HabitsDueOn ==
    /\ \E day \in DateArgs :
         LET res == habits_due_on(day)
         IN  result' = [op |-> "habits_due_on", habit_id |-> 0, date |-> day,
                        raised |-> res.raised, returned |-> res.returned]
    /\ UNCHANGED <<clock, scoreVars, tables, completions, habits>>

NextStore ==
    \/ CreateTables
    \/ CompleteToday
    \/ UncompleteToday
    \/ CompleteDay
    \/ UncompleteDay
    \/ HabitsDueOn

SpecStore == InitStore /\ [][NextStore]_vars

\* ----------------------------------------------------------------- claims

\* The habits the log holds a completion of on date d.
CompletedOn(d) == {r.habit_id : r \in {x \in log : x.date = d}}

\* The due-set of date d, empty when the schedule has no entry for d.
DueOn(d) == IF d \in DOMAIN dueByDate THEN dueByDate[d] ELSE {}

\* Every habit due on d was completed on d.
FullyDone(d) == DueOn(d) \subseteq CompletedOn(d)

\* The dates with something due, among the schedule's dates and today.
DueDays == {d \in DOMAIN dueByDate \cup {clock} : DueOn(d) # {}}

\* The due days counted by the walk from the most recent date: those with no
\* due-but-incomplete day at or after them.
CountedDays == {d \in DueDays : \A e \in DueDays : e >= d => FullyDone(e)}

\* C1: for a non-empty schedule current_streak returns the number of due days
\* the most-recent-first walk counts before it meets a due day that is not
\* fully completed; days with nothing due are skipped.
C1_CurrentStreakIsWalkCount ==
    (stats.called /\ DOMAIN dueByDate # {}) =>
        stats.current_streak = Cardinality(CountedDays)

\* A due and completed day that the walk never counts, because a due and
\* incomplete day lies between it and a counted day.
C1_Witness ==
    /\ stats.called
    /\ stats.current_streak = 1
    /\ \E d1, d2, d3 \in DueDays :
          /\ d1 < d2 /\ d2 < d3
          /\ FullyDone(d1) /\ ~FullyDone(d2) /\ FullyDone(d3)

\* The lengths of the runs of fully done due days, in ascending date order.
RunLengths ==
    {0} \cup
    {Cardinality({e \in DueDays \cap DOMAIN dueByDate : a <= e /\ e <= b}) :
        <<a, b>> \in {p \in (DueDays \cap DOMAIN dueByDate) \X (DueDays \cap DOMAIN dueByDate) :
                        /\ p[1] <= p[2]
                        /\ \A e \in DueDays \cap DOMAIN dueByDate :
                              (p[1] <= e /\ e <= p[2]) => FullyDone(e)}}

\* C2: longest_streak returns the length of the longest run of fully done due
\* days in ascending date order; a day with nothing due neither extends nor
\* resets a run, a due and incomplete day resets it.
C2_LongestStreakIsLongestRun ==
    stats.called =>
        /\ stats.longest_streak \in RunLengths
        /\ \A n \in RunLengths : n <= stats.longest_streak

\* A due and incomplete day between two fully done days: the result is 1.
C2_Witness ==
    /\ stats.called
    /\ stats.longest_streak = 1
    /\ \E d1, d2, d3 \in DOMAIN dueByDate :
          /\ d1 < d2 /\ d2 < d3
          /\ dueByDate[d1] # {} /\ dueByDate[d2] # {} /\ dueByDate[d3] # {}
          /\ FullyDone(d1) /\ ~FullyDone(d2) /\ FullyDone(d3)

\* C3: when today has an entry whose due-set is non-empty and not fully
\* completed, current_streak returns 0.
C3_TodayIncompleteGivesZero ==
    (/\ stats.called
     /\ clock \in DOMAIN dueByDate
     /\ dueByDate[clock] # {}
     /\ ~FullyDone(clock)) => stats.current_streak = 0

\* The schedule without its entry for d.
WithoutDay(d) == [e \in DOMAIN dueByDate \ {d} |-> dueByDate[e]]

\* The schedule with the due-set of d set to S.
WithDay(d, S) == [e \in DOMAIN dueByDate \cup {d} |-> IF e = d THEN S ELSE dueByDate[e]]

\* C4: an entry dated later than today never changes what current_streak
\* returns: removing it, adding or replacing it, or completing it leaves the
\* result the same.
C4_FutureDatesIgnored ==
    stats.called =>
        \A d \in {x \in Dates : x > clock} :
            /\ current_streak(fetch_all_completions(log), WithoutDay(d), clock)
                   = stats.current_streak
            /\ \A S \in SUBSET HabitIds :
                   current_streak(fetch_all_completions(log), WithDay(d, S), clock)
                       = stats.current_streak
            /\ \A h \in HabitIds :
                   current_streak(
                       fetch_all_completions(log \cup {[habit_id |-> h, date |-> d]}),
                       dueByDate, clock) = stats.current_streak

\* The step adds a date with an empty due-set to the schedule or removes one.
EmptyDayEdit ==
    \E d \in Dates :
        \/ d \notin DOMAIN dueByDate /\ dueByDate' = WithDay(d, {})
        \/ d \in DOMAIN dueByDate /\ dueByDate[d] = {} /\ dueByDate' = WithoutDay(d)

\* C5: adding a date with an empty due-set to the schedule, or removing one,
\* changes neither the current streak nor the longest streak.
C5_EmptyDaysNeutral ==
    [][(stats.called /\ log' = log /\ clock' = clock /\ EmptyDayEdit) =>
           /\ stats'.current_streak = stats.current_streak
           /\ stats'.longest_streak = stats.longest_streak]_vars

\* A day with nothing due lies between two counted days of a streak of 2, and
\* another schedule holds nothing but a day with nothing due on today.
C5_Witness ==
    /\ stats.called
    /\ stats.current_streak = 2
    /\ stats.longest_streak = 2
    /\ \E d1, d2, d3 \in DOMAIN dueByDate :
          /\ d1 < d2 /\ d2 < d3
          /\ dueByDate[d1] # {} /\ dueByDate[d2] = {} /\ dueByDate[d3] # {}
          /\ d2 = clock

\* C6: with an empty schedule both streaks are 0, whatever the log holds.
C6_EmptyScheduleGivesZero ==
    (stats.called /\ DOMAIN dueByDate = {}) =>
        stats.current_streak = 0 /\ stats.longest_streak = 0

\* A call with an empty schedule and a log that holds completions.
C6_Witness ==
    /\ stats.called
    /\ DOMAIN dueByDate = {}
    /\ Cardinality(log) = MaxComps

\* C7: summarize_stats passes the two counts through, reports the results of
\* current_streak and longest_streak on the same inputs, and sets currency to
\* total_completions plus one per streak day beyond the first; all five
\* fields are non-negative integers.
C7_SummaryIsComposition ==
    stats.called =>
        LET allc == fetch_all_completions(log) IN
        /\ stats.total_habits = args.total_active_habits
        /\ stats.total_completions = args.total_completions
        /\ stats.current_streak = current_streak(allc, dueByDate, clock)
        /\ stats.longest_streak = longest_streak(allc, dueByDate)
        /\ stats.currency = IF stats.current_streak >= 1
                               THEN args.total_completions + stats.current_streak - 1
                               ELSE args.total_completions
        /\ stats.total_habits \in Nat
        /\ stats.total_completions \in Nat
        /\ stats.current_streak \in Nat
        /\ stats.longest_streak \in Nat
        /\ stats.currency \in Nat

\* 3 completions with a current streak of 3 give a currency of 5.
C7_Witness ==
    /\ stats.called
    /\ stats.total_completions = 3
    /\ stats.current_streak = 3
    /\ stats.currency = 5

\* C8: a call of summarize_stats with the same counts, the same rows (in
\* whatever order) and the same schedule returns the same record, whatever
\* the day it is made on.
C8_SameInputsSameStats ==
    [][(/\ stats.called
        /\ stats'.called
        /\ args' = args
        /\ log' = log
        /\ dueByDate' = dueByDate) => stats' = stats]_vars

\* A call on the last day, which the schedule has no entry for while it has
\* entries for earlier days, on a log with two rows of one date.
C8_Witness ==
    /\ stats.called
    /\ clock = NumDates
    /\ clock \notin DOMAIN dueByDate
    /\ stats.current_streak >= 1
    /\ \E d \in Dates : Cardinality(CompletedOn(d)) = 2

\* The date a call with date argument ds is about: today when none is given.
DateOf(ds) == IF ds = NoDate THEN clock ELSE ds

\* The rows the completions table holds for habit h on date d.
RecordsOf(h, d) == {r \in completions : r.habit_id = h /\ r.date = d}

\* C9: the completion store holds at most one record per (habit_id, date);
\* complete_today for a pair already present fails with
\* ValueError('duplicate_or_invalid') and leaves the store unchanged;
\* uncomplete_today removes exactly that pair's record and reports removed =
\* true if and only if the record was present.
C9_OneRecordPerPair ==
    [][/\ \A r1, r2 \in completions' :
             (r1.habit_id = r2.habit_id /\ r1.date = r2.date) => r1 = r2
       /\ (result'.op = "complete_today"
              /\ RecordsOf(result'.habit_id, DateOf(result'.date)) # {}) =>
             /\ result'.raised = "ValueError(duplicate_or_invalid)"
             /\ completions' = completions
       /\ result'.op = "uncomplete_today" =>
             /\ result'.raised = ""
             /\ result'.returned =
                    [removed |-> RecordsOf(result'.habit_id, DateOf(result'.date)) # {}]
             /\ completions' =
                    completions \ RecordsOf(result'.habit_id, DateOf(result'.date))]_vars

\* The rule of due habits: daily, or custom with a 7-character mask whose
\* character at the weekday index is '1'.
DueByRule(h, wd) ==
    \/ h.frequency = "daily"
    \/ /\ h.frequency = "custom"
       /\ Len(h.weekly_mask) = 7
       /\ h.weekly_mask[wd + 1] = "1"

\* C10: habits_due_on(day) returns exactly the non-archived habits due on that
\* day by the rule, and fails on no input.
C10_DueExactlyByRule ==
    result.op = "habits_due_on" =>
        /\ result.raised = ""
        /\ result.returned =
               [due |-> {h.id : h \in {x \in habits :
                             /\ x.archived_at = NoDate
                             /\ DueByRule(x, weekday(DateOf(result.date)))}}]

\* C11: for every log, every schedule and every value of today, longest_streak
\* is at least current_streak: the current streak is one of the runs the
\* longest streak is the maximum of, and the summary never reports a current
\* streak larger than the longest streak.  Every log, schedule and clock value
\* is summarized, and the record holds what the two functions returned on them.
C11_LongestAtLeastCurrent ==
    stats.called => stats.longest_streak >= stats.current_streak

\* A summary whose current streak of two days is the longest run, after an
\* earlier due day that was not fully completed.
C11_Witness ==
    /\ stats.called
    /\ stats.current_streak = 2
    /\ stats.longest_streak = 2
    /\ \E d \in DOMAIN dueByDate : dueByDate[d] # {} /\ ~(dueByDate[d] \subseteq CompletedOn(d))

=============================================================================
